---- MODULE Spec2Model ----
(***************************************************************************)
(* PyanoMC - Piano Midi Checker (src/pyanomc.py).                          *)
(*                                                                         *)
(* Three specifications over one set of variables:                         *)
(*   Spec        a run of MidiChecker.verify_actions, one loop iteration   *)
(*               per step, the action list being read one element a step;  *)
(*   SpecVerify  one call of MidiChecker._verify_restrictions on a held    *)
(*               chord and a configuration drawn from bounded sets;        *)
(*   SpecParse   a run of MidiChecker.parse_events, one MIDI message per   *)
(*               step, ending with the sort of the action list.            *)
(*                                                                         *)
(* Distances on the keyboard are multiples of 0.5 in the source; the model *)
(* keeps them doubled (white key = 2, black key = 1) so that they stay     *)
(* integers.  The --span option is kept doubled and rounded down the same  *)
(* way (span2 = floor(2 * span)): for a distance d that is a multiple of   *)
(* 0.5, d > span holds exactly when 2d > floor(2 * span).                  *)
(***************************************************************************)
EXTENDS Integers, Sequences, FiniteSets, TLC

VARIABLES
    config,         \* Config attributes that come from the command line
    pressed_notes,  \* verify_actions: list of the notes being held
    no_fails,       \* verify_actions: no fail reported so far
    violation,      \* verify_actions: value last returned by _verify_restrictions
    actions,        \* the action list (as far as it has been built or read)
    out,            \* lines printed to standard output
    pc,             \* position of the program
    exit_code,      \* exit status of the process ("running" while it runs)
    verify_calls,   \* number of calls of _verify_restrictions made so far
    tracks,         \* parse_events: the tracks of the MIDI file, as far as read
    acc_time,       \* parse_events: ticks accumulated on the current track
    tempo,          \* config.tempo
    key,            \* config.key
    timesig,        \* config.timesig
    args,           \* main: the dictionary docopt returns (<<>> before main)
    key_args,       \* the two notes given to key_distance
    key_result      \* white_key_index of both notes and their key_distance

parse_vars == <<tracks, acc_time, tempo, key, timesig>>

other_vars == <<args, key_args, key_result>>

vars == <<config, pressed_notes, no_fails, violation, actions, out, pc, exit_code,
          verify_calls, parse_vars, other_vars>>

----------------------------------------------------------------------------
(* Bounds *)

FirstKey == 10
MaxKeyOffset == 4
MaxNoteOffset == 2
MaxChord == 3
MaxActions == 3
MaxHands == 2
MaxFingers == 3
MaxSpan2 == 3
MaxMaxNotes == 3
MaxTracks == 2
MaxMsgs == 3
MaxPitch == 35

\* notes of the chords given to _verify_restrictions in SpecVerify
Keys == FirstKey .. (FirstKey + MaxKeyOffset)
\* notes of the actions given to verify_actions in Spec
Notes == FirstKey .. (FirstKey + MaxNoteOffset)

----------------------------------------------------------------------------
(* Python list helpers *)

\* x in lst
In(x, lst) == \E i \in 1..Len(lst) : lst[i] = x

\* lst.remove(x): removes the first occurrence of x
RECURSIVE ListRemove(_, _)
ListRemove(lst, x) ==
    IF lst = <<>> THEN <<>>
    ELSE IF Head(lst) = x THEN Tail(lst)
    ELSE <<Head(lst)>> \o ListRemove(Tail(lst), x)

\* insertion of x into an ascending list, after the elements equal to it
RECURSIVE InsertAsc(_, _)
InsertAsc(x, lst) ==
    IF lst = <<>> THEN <<x>>
    ELSE IF x < Head(lst) THEN <<x>> \o lst
    ELSE <<Head(lst)>> \o InsertAsc(x, Tail(lst))

\* sorted(lst): a new list, ascending
RECURSIVE Sorted(_)
Sorted(lst) ==
    IF lst = <<>> THEN <<>>
    ELSE InsertAsc(lst[Len(lst)], Sorted(SubSeq(lst, 1, Len(lst) - 1)))

----------------------------------------------------------------------------
(* Utility functions *)

\* key_index of white_key_index, doubled
key_index2 == <<0, 1, 2, 3, 4, 6, 7, 8, 9, 10, 11, 12>>

white_key_index2_chromatic(note) ==
    LET octave == note \div 12
        pitch  == note % 12
    IN  octave * 12 + key_index2[pitch + 1]

\* white_key_index(note), doubled
white_key_index2(note) ==
    LET octave == note \div 12
        pitch  == note % 12
    IN  octave * 14 + key_index2[pitch + 1]

\* key_distance(n1, n2), doubled
key_distance2(n1, n2) == white_key_index2(n2) - white_key_index2(n1)

----------------------------------------------------------------------------
(* MidiChecker._verify_restrictions *)

None == [kind |-> "None"]
NoNote == -1

InRange(n, cfg) == cfg.lowest_key <= n /\ n <= cfg.highest_key

\* the loop `for n in lst: if not lowest_key <= n <= highest_key: return`:
\* the note n at which the loop returns, NoNote when it runs to its end
RECURSIVE first_out_of_range(_, _)
first_out_of_range(lst, cfg) ==
    IF lst = <<>> THEN NoNote
    ELSE IF ~InRange(Head(lst), cfg) THEN Head(lst)
    ELSE first_out_of_range(Tail(lst), cfg)

range_check_sorted(held, cfg) ==
    first_out_of_range(Sorted(held), cfg)

\* note range check: the loop runs over pressed_notes, the list in press order
range_check(held, cfg) ==
    first_out_of_range(held, cfg)

\* the message of the range check names the two bounds and no note
OutOfRange(cfg) ==
    [kind |-> "OutOfRange", lowest |-> cfg.lowest_key, highest |-> cfg.highest_key]

TooManyNotes(count, max, notes) ==
    [kind |-> "TooManyNotes", count |-> count, max |-> max, notes |-> notes]

\* hand_keys[h] for h in range(hands), then the note n
HandAssignmentFailed(hand_keys, n, cfg) ==
    [kind |-> "HandAssignmentFailed",
     hand_keys |-> [h \in 1..cfg.hands |-> hand_keys[h]],
     note |-> n]

\* sorted_pressed_notes[0] on an empty list
IndexError == [kind |-> "IndexError"]

group_anchor_last(group) == group[Len(group)]

\* hand_keys[hand][0]: the note the span of a hand is measured from
group_anchor(group) == group[1]

needs_new_hand_span_inclusive(group, n, cfg) ==
    \/ Len(group) = cfg.fingers
    \/ key_distance2(group_anchor(group), n) >= cfg.span2

needs_new_hand_span_only(group, n, cfg) ==
    key_distance2(group_anchor(group), n) > cfg.span2

needs_new_hand_over(group, n, cfg) ==
    \/ Len(group) > cfg.fingers
    \/ key_distance2(group_anchor(group), n) > cfg.span2

\* the condition that opens a new hand for note n
needs_new_hand(group, n, cfg) ==
    \/ Len(group) = cfg.fingers
    \/ key_distance2(group_anchor(group), n) > cfg.span2

\* the loop `for n in sorted_pressed_notes[1:]`; hand is 0-based as in the source
RECURSIVE hands_loop(_, _, _, _)
hands_loop(rest, hand_keys, hand, cfg) ==
    IF rest = <<>> THEN None
    ELSE LET n == Head(rest) IN
         IF needs_new_hand(hand_keys[hand + 1], n, cfg)
         THEN IF hand + 1 = cfg.hands
              THEN HandAssignmentFailed(hand_keys, n, cfg)
              ELSE hands_loop(Tail(rest), Append(hand_keys, <<n>>), hand + 1, cfg)
         ELSE hands_loop(Tail(rest),
                         [hand_keys EXCEPT ![hand + 1] = Append(@, n)], hand, cfg)

piano_enabled_always(cfg) == TRUE

piano_enabled(cfg) == ~cfg.no_piano_res

player_enabled_always(cfg) == TRUE

player_enabled(cfg) == ~cfg.no_player_res

verify_restrictions_player_first(held, cfg) ==
    LET sorted_pressed_notes == Sorted(held) IN
    IF player_enabled(cfg) /\ Len(held) > cfg.max_notes
    THEN TooManyNotes(Len(held), cfg.max_notes, sorted_pressed_notes)
    ELSE IF piano_enabled(cfg) /\ range_check(held, cfg) # NoNote
    THEN OutOfRange(cfg)
    ELSE IF player_enabled(cfg)
    THEN IF sorted_pressed_notes = <<>>
         THEN IndexError
         ELSE hands_loop(Tail(sorted_pressed_notes),
                         <<(<<sorted_pressed_notes[1]>>)>>, 0, cfg)
    ELSE None

\* the value _verify_restrictions returns
verify_restrictions(held, cfg) ==
    LET sorted_pressed_notes == Sorted(held) IN
    IF piano_enabled(cfg) /\ range_check(held, cfg) # NoNote
    THEN OutOfRange(cfg)
    ELSE IF player_enabled(cfg)
    THEN IF Len(held) > cfg.max_notes
         THEN TooManyNotes(Len(held), cfg.max_notes, sorted_pressed_notes)
         ELSE IF sorted_pressed_notes = <<>>
         THEN IndexError
         ELSE hands_loop(Tail(sorted_pressed_notes),
                         <<(<<sorted_pressed_notes[1]>>)>>, 0, cfg)
    ELSE None

verify_call_sort_in_place(held, cfg) ==
    [violation |-> verify_restrictions(held, cfg),
     pressed_notes |-> Sorted(held)]

\* a call of _verify_restrictions: the value returned and the caller's list
\* after the call (sorted() builds a new list, the argument is only read)
verify_call(held, cfg) ==
    [violation |-> verify_restrictions(held, cfg),
     pressed_notes |-> held]

----------------------------------------------------------------------------
(* SpecVerify: one call of _verify_restrictions *)

\* the attributes Config.__init__ sets to None, and no track read
NotParsing ==
    /\ tracks = <<>>
    /\ acc_time = 0
    /\ tempo = None /\ key = None /\ timesig = None
    /\ args = <<>>
    /\ key_args = <<>>
    /\ key_result = <<>>

Unset == [kind |-> "Unset"]

LastKey == FirstKey + MaxKeyOffset

NoDup(lst) == \A i, j \in 1..Len(lst) : i # j => lst[i] # lst[j]

\* the lists verify_actions can hold: no note twice, in any order
Chords == UNION {{c \in [1..k -> Keys] : NoDup(c)} : k \in 0..MaxChord}

PlayerParams ==
    [hands : 1..MaxHands, fingers : 1..MaxFingers,
     span2 : (-1)..MaxSpan2, max_notes : 0..MaxMaxNotes]

MkConfig(p, lo, hi, nopiano, noplayer, abort, hide) ==
    [hands |-> p.hands, fingers |-> p.fingers, span2 |-> p.span2,
     max_notes |-> p.max_notes, lowest_key |-> lo, highest_key |-> hi,
     no_piano_res |-> nopiano, no_player_res |-> noplayer,
     abort_on_fail |-> abort, hide_warnings |-> hide]

DefaultParams ==
    [hands |-> MaxHands, fingers |-> MaxFingers, span2 |-> MaxSpan2,
     max_notes |-> MaxHands * MaxFingers]

\* configurations of SpecVerify: every range with the player restrictions
\* off, every player with the piano restrictions off, every player with an
\* inner range and both on, and both off
VerifyConfigs ==
       {MkConfig(DefaultParams, lo, hi, FALSE, TRUE, FALSE, FALSE) :
            lo \in Keys, hi \in Keys}
    \cup {MkConfig(p, FirstKey, LastKey, TRUE, FALSE, FALSE, FALSE) :
            p \in PlayerParams}
    \cup {MkConfig(p, FirstKey + 1, LastKey - 1, FALSE, FALSE, FALSE, FALSE) :
            p \in PlayerParams}
    \cup {MkConfig(DefaultParams, FirstKey + 1, LastKey - 1, TRUE, TRUE, FALSE, FALSE)}

InitVerify ==
    /\ config \in VerifyConfigs
    /\ pressed_notes \in Chords
    /\ no_fails = TRUE
    /\ violation = Unset
    /\ actions = <<>>
    /\ out = <<>>
    /\ pc = "call"
    /\ exit_code = "running"
    /\ verify_calls = 0
    /\ NotParsing

CallVerify ==
    /\ pc = "call"
    /\ LET r == verify_call(pressed_notes, config) IN
       /\ violation' = r.violation
       /\ pressed_notes' = r.pressed_notes
    /\ verify_calls' = verify_calls + 1
    /\ pc' = "returned"
    /\ UNCHANGED <<config, no_fails, actions, out, exit_code, parse_vars,
                   other_vars>>

NextVerify == CallVerify

SpecVerify == InitVerify /\ [][NextVerify]_vars

----------------------------------------------------------------------------
(* Spec: MidiChecker.verify_actions *)

\* Action(press, note, time, config); the config is the shared one
Action(press, note, time) == [press |-> press, note |-> note, time |-> time]

\* verify_actions reads a.press and a.note and only prints a.time: the
\* actions it is given here are all on one tick
EngineTick == 0

Warning(text, a) == [type |-> "Warning", text |-> text, action |-> a]
Fail(a, v) == [type |-> "Fail", action |-> a, violation |-> v]
Verdict == [type |-> "Verdict", text |-> "All tests passed!"]

press_update_keep(held, n) == held

press_update_append(held, n) == Append(held, n)

\* the press branch: a note that is held is not appended again
press_update(held, n) ==
    IF In(n, held) THEN held ELSE Append(held, n)

release_update_pop(held, n) ==
    IF ~In(n, held) THEN held ELSE SubSeq(held, 1, Len(held) - 1)

\* the release branch: a note that is held is removed
release_update(held, n) ==
    IF ~In(n, held) THEN held ELSE ListRemove(held, n)

press_warns_always(held, n, cfg) == In(n, held)

\* a press prints its warning
press_warns(held, n, cfg) == In(n, held) /\ ~cfg.hide_warnings

release_warns_held(held, n, cfg) == In(n, held) /\ ~cfg.hide_warnings

release_warns_never(held, n, cfg) == FALSE

\* a release prints its warning
release_warns(held, n, cfg) == ~In(n, held) /\ ~cfg.hide_warnings

next_no_fails_last(nf, v) == v = None

\* no_fails after a press whose verification returned v
next_no_fails(nf, v) == IF v # None THEN FALSE ELSE nf

aborts_never(v, cfg) == FALSE

\* exit(1) is called
aborts(v, cfg) == v # None /\ cfg.abort_on_fail

EngineParams ==
    [hands : {1, MaxHands}, fingers : {1, MaxFingers},
     span2 : {1, MaxSpan2}, max_notes : {1, MaxMaxNotes}]

LastNote == FirstKey + MaxNoteOffset

\* configurations of Spec: as VerifyConfigs, with every choice of
\* --abort-on-fail and --hide-warnings; the range leaves the first note out
EngineConfigs ==
    UNION {
           {MkConfig(DefaultParams, FirstKey + 1, LastNote, FALSE, TRUE, ab, hw),
            MkConfig(DefaultParams, FirstKey + 1, LastNote, TRUE, TRUE, ab, hw)}
      \cup {MkConfig(p, FirstKey + 1, LastNote, np, FALSE, ab, hw) :
                p \in EngineParams, np \in BOOLEAN}
      : ab \in BOOLEAN, hw \in BOOLEAN}

Init ==
    /\ config \in EngineConfigs
    /\ pressed_notes = <<>>
    /\ no_fails = TRUE
    /\ violation = Unset
    /\ actions = <<>>
    /\ out = <<>>
    /\ pc = "verify"
    /\ exit_code = "running"
    /\ verify_calls = 0
    /\ NotParsing

\* one iteration of the loop, for a press action
Press(n) ==
    /\ pc = "verify"
    /\ Len(actions) < MaxActions
    /\ LET a    == Action(TRUE, n, EngineTick)
           held == press_update(pressed_notes, n)
           r    == verify_call(held, config)
           warn == IF press_warns(pressed_notes, n, config)
                   THEN <<Warning("Note press while note is already being pressed", a)>>
                   ELSE <<>>
       IN  /\ actions' = Append(actions, a)
           /\ verify_calls' = verify_calls + 1
           /\ IF r.violation = IndexError
              THEN \* the exception ends the process
                   /\ pressed_notes' = held
                   /\ out' = out \o warn
                   /\ pc' = "crashed"
                   /\ exit_code' = 1
                   /\ UNCHANGED <<violation, no_fails>>
              ELSE /\ pressed_notes' = r.pressed_notes
                   /\ violation' = r.violation
                   /\ no_fails' = next_no_fails(no_fails, r.violation)
                   /\ out' = out \o warn \o
                             (IF r.violation # None
                              THEN <<Fail(a, r.violation)>> ELSE <<>>)
                   /\ IF aborts(r.violation, config)
                      THEN pc' = "exited" /\ exit_code' = 1
                      ELSE UNCHANGED <<pc, exit_code>>
    /\ UNCHANGED <<config, parse_vars, other_vars>>

\* one iteration of the loop, for a release action
Release(n) ==
    /\ pc = "verify"
    /\ Len(actions) < MaxActions
    /\ LET a == Action(FALSE, n, EngineTick) IN
       /\ actions' = Append(actions, a)
       /\ out' = out \o
                 (IF release_warns(pressed_notes, n, config)
                  THEN <<Warning("Note release while note is not being pressed", a)>>
                  ELSE <<>>)
    /\ pressed_notes' = release_update(pressed_notes, n)
    /\ UNCHANGED <<config, no_fails, violation, pc, exit_code, verify_calls, parse_vars,
                   other_vars>>

\* the loop has run over the whole list: the verdict, and main returns
Finish ==
    /\ pc = "verify"
    /\ out' = out \o (IF no_fails THEN <<Verdict>> ELSE <<>>)
    /\ pc' = "done"
    /\ exit_code' = 0
    /\ UNCHANGED <<config, pressed_notes, no_fails, violation, actions, verify_calls,
                   parse_vars, other_vars>>

Next ==
    \/ \E n \in Notes : Press(n)
    \/ \E n \in Notes : Release(n)
    \/ Finish

Spec == Init /\ [][Next]_vars

----------------------------------------------------------------------------
(* SpecParse: MidiChecker.parse_events *)

\* delta times: a message on the tick of the one before it, or one tick later
Deltas == {0, 1}

\* the messages of a track: their type, their delta time and their payload
Messages ==
         [type : {"note_on", "note_off"}, time : Deltas, note : {FirstKey}]
    \cup [type : {"set_tempo"}, time : Deltas, tempo : {400000}]
    \cup [type : {"key_signature"}, time : Deltas, key : {"Am"}]
    \cup [type : {"time_signature"}, time : Deltas,
          numerator : {3}, denominator : {4}]
    \cup [type : {"control_change"}, time : Deltas]

\* the configuration of the default options
DefaultConfig ==
    MkConfig(DefaultParams, FirstKey, LastKey, FALSE, FALSE, FALSE, FALSE)

InitParse ==
    /\ config = DefaultConfig
    /\ pressed_notes = <<>>
    /\ no_fails = TRUE
    /\ violation = Unset
    /\ actions = <<>>
    /\ out = <<>>
    /\ pc = "parse"
    /\ exit_code = "running"
    /\ verify_calls = 0
    /\ NotParsing

\* the messages read so far, over all tracks
RECURSIVE NumMsgs(_)
NumMsgs(trs) == IF trs = <<>> THEN 0 ELSE Len(Head(trs)) + NumMsgs(Tail(trs))

NextTrackKeepsTime ==
    /\ pc = "parse"
    /\ Len(tracks) < MaxTracks
    /\ tracks' = Append(tracks, <<>>)
    /\ UNCHANGED <<config, pressed_notes, no_fails, violation, actions, out, pc,
                   exit_code, verify_calls, acc_time, tempo, key, timesig,
                   other_vars>>

\* `for i, track in enumerate(self.midi.tracks)`: the next track begins
NextTrack ==
    /\ pc = "parse"
    /\ Len(tracks) < MaxTracks
    /\ tracks' = Append(tracks, <<>>)
    /\ acc_time' = 0
    /\ UNCHANGED <<config, pressed_notes, no_fails, violation, actions, out, pc,
                   exit_code, verify_calls, tempo, key, timesig,
                   other_vars>>

\* a config attribute that holds a value and not None
Value(x) == [kind |-> "value", val |-> x]

is_metadata_time_acc(msg, acc) == acc + msg.time = 0

\* the condition under which a message may set the song metadata
is_metadata_time(msg, acc) == msg.time = 0

\* `for msg in track`: one message of the current track
ReadMsg(msg) ==
    /\ pc = "parse"
    /\ Len(tracks) >= 1
    /\ NumMsgs(tracks) < MaxMsgs
    /\ tracks' = [tracks EXCEPT ![Len(tracks)] = Append(@, msg)]
    /\ tempo' = IF is_metadata_time(msg, acc_time) /\ msg.type = "set_tempo"
                THEN Value(msg.tempo) ELSE tempo
    /\ key' = IF is_metadata_time(msg, acc_time) /\ msg.type = "key_signature"
              THEN Value(msg.key) ELSE key
    /\ timesig' = IF is_metadata_time(msg, acc_time) /\ msg.type = "time_signature"
                  THEN Value(<<msg.numerator, msg.denominator>>) ELSE timesig
    /\ acc_time' = acc_time + msg.time
    /\ actions' = IF msg.type \in {"note_on", "note_off"}
                  THEN Append(actions,
                              Action(msg.type = "note_on", msg.note, acc_time'))
                  ELSE actions
    /\ UNCHANGED <<config, pressed_notes, no_fails, violation, out, pc, exit_code,
                   verify_calls, other_vars>>

RECURSIVE insert_before_equal(_, _)
insert_before_equal(a, lst) ==
    IF lst = <<>> THEN <<a>>
    ELSE IF a.time <= Head(lst).time THEN <<a>> \o lst
    ELSE <<Head(lst)>> \o insert_before_equal(a, Tail(lst))

\* insertion of a into a list sorted by time, after the actions of its time
RECURSIVE insert_by_time(_, _)
insert_by_time(a, lst) ==
    IF lst = <<>> THEN <<a>>
    ELSE IF a.time < Head(lst).time THEN <<a>> \o lst
    ELSE <<Head(lst)>> \o insert_by_time(a, Tail(lst))

\* actions.sort(key=lambda a: a.time): list.sort is stable
RECURSIVE sort_by_time(_)
sort_by_time(lst) ==
    IF lst = <<>> THEN <<>>
    ELSE insert_by_time(lst[Len(lst)], sort_by_time(SubSeq(lst, 1, Len(lst) - 1)))

\* the tracks are read: the sort, and the return
SortAndReturn ==
    /\ pc = "parse"
    /\ actions' = sort_by_time(actions)
    /\ pc' = "parsed"
    /\ UNCHANGED <<config, pressed_notes, no_fails, violation, out, exit_code,
                   verify_calls, parse_vars, other_vars>>

NextParse ==
    \/ NextTrack
    \/ \E msg \in Messages : ReadMsg(msg)
    \/ SortAndReturn

SpecParse == InitParse /\ [][NextParse]_vars

----------------------------------------------------------------------------
(* Properties of verify_actions (Spec) *)

\* the set of the notes of a list
NoteSet(lst) == {lst[i] : i \in 1..Len(lst)}

\* the lines the step prints
Printed == SubSeq(out', Len(out) + 1, Len(out'))

\* the step is the loop iteration of the action a
Processes(a) == actions' = Append(actions, a)

IsWarning(line, text) == line.type = "Warning" /\ line.text = text
DoublePress == "Note press while note is already being pressed"
ReleaseWithoutPress == "Note release while note is not being pressed"

HasFail(lines) == \E i \in 1..Len(lines) : lines[i].type = "Fail"
HasVerdict(lines) == \E i \in 1..Len(lines) : lines[i] = Verdict

C1Step ==
    /\ NoDup(pressed_notes')
    /\ \A n \in Notes :
         Processes(Action(TRUE, n, EngineTick)) =>
           IF In(n, pressed_notes)
           THEN /\ pressed_notes' = pressed_notes
                /\ (~config.hide_warnings =>
                      /\ Len(Printed) >= 1
                      /\ IsWarning(Printed[1], DoublePress)
                      /\ Printed[1].action = Action(TRUE, n, EngineTick))
                /\ (config.hide_warnings =>
                      \A i \in 1..Len(Printed) : Printed[i].type # "Warning")
           ELSE /\ Len(pressed_notes') = Len(pressed_notes) + 1
                /\ NoteSet(pressed_notes') = NoteSet(pressed_notes) \cup {n}
                /\ \A i \in 1..Len(Printed) : Printed[i].type # "Warning"

C2Step ==
    \A n \in Notes :
      Processes(Action(FALSE, n, EngineTick)) =>
        /\ IF In(n, pressed_notes)
           THEN /\ pressed_notes' = SelectSeq(pressed_notes, LAMBDA x : x # n)
                /\ Printed = <<>>
           ELSE /\ pressed_notes' = pressed_notes
                /\ Printed = IF config.hide_warnings THEN <<>>
                             ELSE <<Warning(ReleaseWithoutPress,
                                            Action(FALSE, n, EngineTick))>>
        /\ verify_calls' = verify_calls
        /\ ~HasFail(Printed)
        /\ no_fails' = no_fails
        /\ violation' = violation
        /\ pc' = pc /\ exit_code' = exit_code

----------------------------------------------------------------------------
(* Properties of _verify_restrictions (SpecVerify) *)

\* lst without its i-th element
DropAt(lst, i) == SubSeq(lst, 1, i - 1) \o SubSeq(lst, i + 1, Len(lst))

\* C3: releasing never introduces a violation: when _verify_restrictions
\* returns no violation for a held chord, it returns none for the chord
\* without any one of its notes, as long as a note is left.
C3_ReleaseNeverViolates ==
    (pc = "returned" /\ violation = None /\ Len(pressed_notes) > 1) =>
        \A i \in 1..Len(pressed_notes) :
            verify_restrictions(DropAt(pressed_notes, i), config) = None

\* a chord of three notes that needs both hands and passes, both
\* restriction classes on
C3_Witness ==
    /\ pc = "returned" /\ violation = None
    /\ Len(pressed_notes) = 3
    /\ ~config.no_player_res /\ ~config.no_piano_res
    /\ config.hands = 2
    /\ key_distance2(Sorted(pressed_notes)[1], Sorted(pressed_notes)[3]) > config.span2

\* the range check lets the chord through
RangePasses(lst, cfg) ==
    cfg.no_piano_res \/ \A i \in 1..Len(lst) : InRange(lst[i], cfg)

\* the positions of the ascending list s at which the greedy assignment
\* opens a hand: position 1, and every later position k whose note does not
\* fit the hand opened last before it, because that hand has
\* fingers_per_hand notes or its first note is further than max_span away
GreedyStarts(s, cfg) ==
    CHOOSE B \in SUBSET (1..Len(s)) :
        /\ 1 \in B
        /\ \A k \in 2..Len(s) :
             LET b == CHOOSE x \in B : x < k /\ \A y \in B : y < k => y <= x
             IN  k \in B <=> \/ k - b = cfg.fingers
                             \/ key_distance2(s[b], s[k]) > cfg.span2

\* the h-th smallest element of a set of positions
RECURSIVE NthStart(_, _)
NthStart(B, h) ==
    LET m == CHOOSE x \in B : \A y \in B : x <= y
    IN  IF h = 1 THEN m ELSE NthStart(B \ {m}, h - 1)

C4Holds(s, cfg, v) ==
    LET B == GreedyStarts(s, cfg) IN
    IF Cardinality(B) <= cfg.hands
    THEN v = None
    ELSE LET stop == NthStart(B, cfg.hands + 1) IN
         /\ v.kind = "HandAssignmentFailed"
         /\ v.note = s[stop]
         /\ DOMAIN v.hand_keys = 1..cfg.hands
         /\ \A h \in 1..cfg.hands :
              v.hand_keys[h] =
                SubSeq(s, NthStart(B, h), NthStart(B, h + 1) - 1)
         /\ UNION {NoteSet(v.hand_keys[h]) : h \in 1..cfg.hands}
              = {n \in NoteSet(s) : n < v.note}

\* C4: with the player restrictions on, the range check passed and at most
\* max_notes notes held, the ascending notes are assigned greedily; the
\* result is HandAssignmentFailed exactly when a hand has to be opened and
\* `hands` hands are open, it then reports those `hands` groups and the
\* lowest held note left without a hand; otherwise there is no violation.
C4_GreedyAssignment ==
    (/\ pc = "returned"
     /\ ~config.no_player_res
     /\ RangePasses(pressed_notes, config)
     /\ Len(pressed_notes) <= config.max_notes
     /\ Len(pressed_notes) >= 1)
    => C4Holds(Sorted(pressed_notes), config, violation)

\* a failed assignment with two hands: three notes, pressed out of order,
\* the first hand closed by the span
C4_Witness ==
    /\ pc = "returned"
    /\ violation.kind = "HandAssignmentFailed"
    /\ config.hands = 2 /\ config.fingers = 2
    /\ Len(violation.hand_keys[1]) = 1
    /\ Len(pressed_notes) = 3
    /\ pressed_notes # Sorted(pressed_notes)

\* the held notes outside [lowest_key, highest_key]
OutOfRangeNotes(lst, cfg) == {n \in NoteSet(lst) : ~InRange(n, cfg)}

MinNote(S) == CHOOSE x \in S : \A y \in S : x <= y

\* the first note of the list, in list order, that is out of range
FirstPressedOutOfRange(lst, cfg) ==
    lst[CHOOSE i \in 1..Len(lst) :
            /\ ~InRange(lst[i], cfg)
            /\ \A j \in 1..(i - 1) : InRange(lst[j], cfg)]

RangeCase ==
    /\ pc = "returned"
    /\ ~config.no_piano_res
    /\ OutOfRangeNotes(pressed_notes, config) # {}

\* C5 as stated: with the piano restrictions on and a held note out of
\* range, the result is OutOfRange and the note the range check returns at
\* is the lowest held note out of range.
C5_LowestOutOfRangeNote ==
    RangeCase =>
        /\ violation.kind = "OutOfRange"
        /\ range_check(pressed_notes, config)
             = MinNote(OutOfRangeNotes(pressed_notes, config))

\* C5 amended: with the piano restrictions on and a held note out of range,
\* the result is OutOfRange, a value that names the two bounds and no note
\* and so is the same for every press order; the note the range check
\* returns at is the first out-of-range note in press order.
C5_FirstPressedOutOfRangeNote ==
    RangeCase =>
        /\ violation = OutOfRange(config)
        /\ violation = verify_restrictions(Sorted(pressed_notes), config)
        /\ range_check(pressed_notes, config)
             = FirstPressedOutOfRange(pressed_notes, config)

\* two notes out of range, the higher one pressed first
C5_Witness ==
    /\ RangeCase
    /\ violation.kind = "OutOfRange"
    /\ Cardinality(OutOfRangeNotes(pressed_notes, config)) >= 2
    /\ range_check(pressed_notes, config)
         # MinNote(OutOfRangeNotes(pressed_notes, config))

----------------------------------------------------------------------------
(* Properties of a run of verify_actions (Spec) *)

RECURSIVE HeldAfter(_)
HeldAfter(k) ==
    IF k = 0 THEN <<>>
    ELSE LET a == actions[k]
             h == HeldAfter(k - 1)
         IN  IF a.press
             THEN IF a.note \in NoteSet(h) THEN h ELSE Append(h, a.note)
             ELSE SelectSeq(h, LAMBDA x : x # a.note)

\* the k-th action is a press whose chord violates the restrictions
PressViolates(k) ==
    /\ actions[k].press
    /\ verify_restrictions(HeldAfter(k), config) # None

NumWarnings == Cardinality({i \in 1..Len(out) : out[i].type = "Warning"})

\* C7: at the end of a run that reaches the end of the actions, the verdict
\* line "All tests passed!" is printed exactly when no press of the
\* sequence produced a violation, whatever warnings were printed.
C7_VerdictIffNoFails ==
    pc = "done" =>
        /\ HasVerdict(out) <=> \A k \in 1..Len(actions) : ~PressViolates(k)
        /\ HasVerdict(out) <=> ~HasFail(out)
        /\ HasVerdict(out) => out[Len(out)] = Verdict

\* a run with a fail, then a release and a press that passes: no verdict
C7_Witness ==
    /\ pc = "done"
    /\ Len(actions) = 3
    /\ PressViolates(1) /\ ~actions[2].press /\ actions[3].press
    /\ ~PressViolates(3)
    /\ ~HasVerdict(out)

NumFails == Cardinality({i \in 1..Len(out) : out[i].type = "Fail"})

C9Step ==
    /\ \A n \in Notes :
         (Processes(Action(TRUE, n, EngineTick)) /\ violation' # None) =>
            /\ pressed_notes' = IF n \in NoteSet(pressed_notes)
                                THEN pressed_notes
                                ELSE Append(pressed_notes, n)
            /\ n \in NoteSet(pressed_notes')
            /\ HasFail(Printed)
    /\ \A n \in NoteSet(pressed_notes) \ NoteSet(pressed_notes') :
         Processes(Action(FALSE, n, EngineTick))

\* C9: a press whose verification fails leaves the held notes exactly as a
\* press that passes would (the list before it, plus the note if it was not
\* held), _verify_restrictions leaves the list it is given alone, and a
\* held note leaves the list only by its own release.
C9_FailKeepsHeldNotes == [][C9Step]_vars

\* a failing press of a note lower than one already held; the note is
\* still held after a later action
C9_Witness ==
    /\ Len(actions) = 3
    /\ actions[1].press /\ PressViolates(2)
    /\ actions[2].note < actions[1].note
    /\ HasFail(out)
    /\ pressed_notes = <<actions[1].note, actions[2].note>>

----------------------------------------------------------------------------
(* Properties of parse_events (SpecParse) *)

\* the tick of the j-th message of a track: the sum of the delta times up to it
RECURSIVE AbsTime(_, _)
AbsTime(tr, j) == IF j = 0 THEN 0 ELSE AbsTime(tr, j - 1) + tr[j].time

IsNote(msg) == msg.type \in {"note_on", "note_off"}

\* the places <<track, message>> of the note messages from message j of
\* track i on, tracks in file order and messages in track order
RECURSIVE NoteEvents(_, _)
NoteEvents(i, j) ==
    IF i > Len(tracks) THEN <<>>
    ELSE IF j > Len(tracks[i]) THEN NoteEvents(i + 1, 1)
    ELSE (IF IsNote(tracks[i][j]) THEN <<(<<i, j>>)>> ELSE <<>>)
         \o NoteEvents(i, j + 1)

EventTime(q) == AbsTime(tracks[q[1]], q[2])

\* the action of the note message at place q
ActionOf(q) ==
    LET msg == tracks[q[1]][q[2]]
    IN  Action(msg.type = "note_on", msg.note, EventTime(q))

\* the actions of the note messages of tick t, in emission order
EmittedAt(t) ==
    LET qs == SelectSeq(NoteEvents(1, 1), LAMBDA q : EventTime(q) = t)
    IN  [k \in 1..Len(qs) |-> ActionOf(qs[k])]

\* C10: the list parse_events returns is in non-decreasing order of time,
\* and the actions of one tick are in emission order: those of an earlier
\* track first, and those of one track in the order of its messages.
C10_SortedStable ==
    pc = "parsed" =>
        /\ \A i, j \in 1..Len(actions) :
             i < j => actions[i].time <= actions[j].time
        /\ \A t \in {actions[i].time : i \in 1..Len(actions)}
                   \cup {EventTime(q) : q \in NoteSet(NoteEvents(1, 1))} :
             SelectSeq(actions, LAMBDA a : a.time = t) = EmittedAt(t)

\* two tracks: the action of the first track is later than the first of the
\* second track and on the tick of its second, a different action
C10_Witness ==
    /\ pc = "parsed"
    /\ Len(tracks) = 2 /\ Len(tracks[1]) = 1 /\ Len(tracks[2]) = 2
    /\ Len(actions) = 3
    /\ actions[1] = ActionOf(<<2, 1>>)
    /\ actions[2] = ActionOf(<<1, 1>>)
    /\ actions[3] = ActionOf(<<2, 2>>)
    /\ actions[1].time < actions[2].time
    /\ actions[2].time = actions[3].time
    /\ actions[2] # actions[3]

\* the actions of all note messages, in emission order
Emitted ==
    LET qs == NoteEvents(1, 1)
    IN  [k \in 1..Len(qs) |-> ActionOf(qs[k])]

\* the number of places of a list that hold x
Count(lst, x) == Cardinality({i \in 1..Len(lst) : lst[i] = x})

\* C11: parse_events makes one action for every note_on and note_off
\* message and none for any other message; the time of an action is the sum
\* of the delta times of the messages of its track up to its own, the
\* accumulator starting at 0 on every track; press is true for note_on only.
C11_OneActionPerNoteMessage ==
    /\ pc = "parse" =>
         /\ actions = Emitted
         /\ acc_time = IF tracks = <<>> THEN 0
                       ELSE AbsTime(tracks[Len(tracks)], Len(tracks[Len(tracks)]))
    /\ pc = "parsed" =>
         /\ Len(actions) = Len(Emitted)
         /\ \A i \in 1..Len(actions) :
              Count(actions, actions[i]) = Count(Emitted, actions[i])

\* a first track with a message that is no note, a tick late, and a
\* note_off on its tick; a second track with a note_on on tick 0
C11_Witness ==
    /\ pc = "parsed"
    /\ Len(tracks) = 2 /\ Len(tracks[1]) = 2 /\ Len(tracks[2]) = 1
    /\ ~IsNote(tracks[1][1]) /\ tracks[1][1].time = 1
    /\ tracks[1][2].type = "note_off" /\ tracks[1][2].time = 0
    /\ tracks[2][1].type = "note_on" /\ tracks[2][1].time = 0
    /\ actions = <<Action(TRUE, FirstKey, 0), Action(FALSE, FirstKey, 1)>>

\* the places <<track, message>> of all messages from message j of track i
\* on, in the order parse_events reads them
RECURSIVE AllEvents(_, _)
AllEvents(i, j) ==
    IF i > Len(tracks) THEN <<>>
    ELSE IF j > Len(tracks[i]) THEN AllEvents(i + 1, 1)
    ELSE <<(<<i, j>>)>> \o AllEvents(i, j + 1)

\* the places of the messages of a type whose tick on their track is 0
AtTickZero(type) ==
    SelectSeq(AllEvents(1, 1),
              LAMBDA q : tracks[q[1]][q[2]].type = type /\ EventTime(q) = 0)

\* the last message of a type at tick 0, if there is one
LastAtTickZero(type) ==
    LET qs == AtTickZero(type) IN tracks[qs[Len(qs)][1]][qs[Len(qs)][2]]

\* C12: a tempo, key-signature or time-signature message sets its field of
\* the context only if its tick on its track (delta times accumulated, its
\* own included) is 0, a later one never does; of those at tick 0 the last
\* one read wins.
C12_ContextOnlyFromTickZero ==
    /\ tempo = IF AtTickZero("set_tempo") = <<>> THEN None
               ELSE Value(LastAtTickZero("set_tempo").tempo)
    /\ key = IF AtTickZero("key_signature") = <<>> THEN None
             ELSE Value(LastAtTickZero("key_signature").key)
    /\ timesig = IF AtTickZero("time_signature") = <<>> THEN None
                 ELSE Value(<<LastAtTickZero("time_signature").numerator,
                              LastAtTickZero("time_signature").denominator>>)

\* no track holds a set_tempo message
NoTempoMessage ==
    \A i \in 1..Len(tracks) : \A j \in 1..Len(tracks[i]) :
        tracks[i][j].type # "set_tempo"

\* C13: after parse_events the tempo of the context is a positive integer:
\* 500000 when no track holds a tempo message.
C13_TempoAlwaysSet ==
    pc = "parsed" =>
        /\ tempo.kind = "value"
        /\ tempo.val \in Nat \ {0}
        /\ NoTempoMessage => tempo = Value(500000)

----------------------------------------------------------------------------
(* SpecArgs: main up to the construction of the Config (src/arg_parsing.py) *)

\* option strings: "<n>", "<n>.5" (val2 is the value doubled) and other text
IntStr(n) == [kind |-> "int", val |-> n]
HalfStr(n2) == [kind |-> "decimal", val2 |-> n2]
TextStr(t) == [kind |-> "text", text |-> t]

\* int(val) and float(val) of num_parser_impl; the float is kept doubled
cast(type, val) ==
    IF type = "int"
    THEN IF val.kind = "int" THEN Value(val.val) ELSE None
    ELSE IF val.kind = "int" THEN Value(2 * val.val)
    ELSE IF val.kind = "decimal" THEN Value(val.val2)
    ELSE None

\* the bound of a parser, doubled for a float
scaled(type, bound) == IF type = "int" THEN bound ELSE 2 * bound

ArgError(arg, text) == [type |-> "ArgError", arg |-> arg, text |-> text]

\* num_parser_impl(arg, val, minv, maxv, cast): the value returned and the
\* line printed; minv and maxv are <<>> for None
num_parser_impl(arg, val, minv, maxv, type) ==
    LET cast_val == cast(type, val) IN
    IF cast_val = None
    THEN [value |-> None, raised |-> FALSE,
          out |-> <<ArgError(arg, IF type = "int" THEN "must be an integer"
                                  ELSE "must be a number")>>]
    ELSE IF minv # <<>> /\ cast_val.val < scaled(type, minv[1])
    THEN [value |-> None, raised |-> FALSE, out |-> <<ArgError(arg, "must be >=")>>]
    ELSE IF maxv # <<>> /\ cast_val.val > scaled(type, maxv[1])
    THEN [value |-> None, raised |-> FALSE, out |-> <<ArgError(arg, "must be <=")>>]
    ELSE [value |-> cast_val, raised |-> FALSE, out |-> <<>>]

DigitVal ==
    ("0" :> 0) @@ ("1" :> 1) @@ ("2" :> 2) @@ ("3" :> 3) @@ ("4" :> 4) @@
    ("5" :> 5) @@ ("6" :> 6) @@ ("7" :> 7) @@ ("8" :> 8) @@ ("9" :> 9)

RECURSIVE digits_value(_, _)
digits_value(chars, acc) ==
    IF chars = <<>> THEN acc
    ELSE digits_value(Tail(chars), 10 * acc + DigitVal[Head(chars)])

AllDigits(chars) ==
    chars # <<>> /\ \A i \in 1..Len(chars) : chars[i] \in DOMAIN DigitVal

\* int(''.join(chars)): None stands for the ValueError
py_int(chars) ==
    IF AllDigits(chars) THEN Value(digits_value(chars, 0))
    ELSE IF chars # <<>> /\ Head(chars) = "-" /\ AllDigits(Tail(chars))
    THEN Value(0 - digits_value(Tail(chars), 0))
    ELSE IF chars # <<>> /\ Head(chars) = "+" /\ AllDigits(Tail(chars))
    THEN Value(digits_value(Tail(chars), 0))
    ELSE None

pitches ==
    (<<"C">> :> 0) @@ (<<"C", "#">> :> 1) @@ (<<"D", "b">> :> 1) @@
    (<<"D">> :> 2) @@ (<<"D", "#">> :> 3) @@ (<<"E", "b">> :> 3) @@
    (<<"E">> :> 4) @@ (<<"F">> :> 5) @@ (<<"F", "#">> :> 6) @@
    (<<"G", "b">> :> 6) @@ (<<"G">> :> 7) @@ (<<"G", "#">> :> 8) @@
    (<<"A", "b">> :> 8) @@ (<<"A">> :> 9) @@ (<<"A", "#">> :> 10) @@
    (<<"B", "b">> :> 10) @@ (<<"B">> :> 11)

Raised(error) == [value |-> None, raised |-> TRUE, error |-> error, out |-> <<>>]

\* note_parser_impl(arg, val): val is the string as a list of characters
note_parser_impl(arg, val) ==
    IF val = <<>> THEN Raised("ValueError")
    ELSE LET first == Head(val)
             rest  == Tail(val)
         IN  IF rest = <<>> THEN Raised("IndexError")
             ELSE LET accidental == rest[1] \in {"#", "b"}
                      letter == IF accidental THEN <<first, rest[1]>> ELSE <<first>>
                      octave == IF accidental THEN py_int(Tail(rest)) ELSE py_int(rest)
                  IN  IF octave = None THEN Raised("ValueError")
                      ELSE IF letter \notin DOMAIN pitches THEN Raised("KeyError")
                      ELSE [value |-> Value((octave.val + 1) * 12 + pitches[letter]),
                            raised |-> FALSE, out |-> <<>>]

NumericOptions == {"--hands", "--fingers", "--span", "--max-notes"}
NoteOptions == {"--lowest-key", "--highest-key"}

\* arg_parsers[k](k, val)
arg_parsers(k, val) ==
    CASE k = "--hands"       -> num_parser_impl(k, val, <<1>>, <<>>, "int")
      [] k = "--fingers"     -> num_parser_impl(k, val, <<1>>, <<>>, "int")
      [] k = "--span"        -> num_parser_impl(k, val, <<>>, <<>>, "float")
      [] k = "--max-notes"   -> num_parser_impl(k, val, <<>>, <<>>, "int")
      [] k = "--lowest-key"  -> note_parser_impl(k, val)
      [] k = "--highest-key" -> note_parser_impl(k, val)

DefaultMaxNotes == TextStr("hands*fingers")

\* main: --max-notes is taken out of the dictionary when it is the default
def_max_notes(a) == a["--max-notes"] = DefaultMaxNotes

\* the options parse_args gives to a parser
ParsedOptions(a) ==
    (NumericOptions \cup NoteOptions)
        \ (IF def_max_notes(a) THEN {"--max-notes"} ELSE {})

\* the value of an option after parse_args and the default of --max-notes
Parsed(a, k) ==
    IF k = "--max-notes" /\ def_max_notes(a)
    THEN arg_parsers("--hands", a["--hands"]).value.val
           * arg_parsers("--fingers", a["--fingers"]).value.val
    ELSE arg_parsers(k, a[k]).value.val

\* Config(args): the attributes verify_actions and _verify_restrictions read
ConfigOf(a) ==
    [hands |-> Parsed(a, "--hands"), fingers |-> Parsed(a, "--fingers"),
     span2 |-> Parsed(a, "--span"), max_notes |-> Parsed(a, "--max-notes"),
     lowest_key |-> Parsed(a, "--lowest-key"),
     highest_key |-> Parsed(a, "--highest-key"),
     no_piano_res |-> a["--no-piano-res"], no_player_res |-> a["--no-player-res"],
     abort_on_fail |-> a["--abort-on-fail"], hide_warnings |-> a["--hide-warnings"]]

MkArgs(file, hands, fingers, span, maxnotes, lowest, highest) ==
    ("<file>" :> file) @@ ("--hands" :> hands) @@ ("--fingers" :> fingers) @@
    ("--span" :> span) @@ ("--max-notes" :> maxnotes) @@
    ("--lowest-key" :> lowest) @@ ("--highest-key" :> highest) @@
    ("--no-piano-res" :> FALSE) @@ ("--no-player-res" :> FALSE) @@
    ("--abort-on-fail" :> FALSE) @@ ("--hide-warnings" :> FALSE)

CountStrs == {IntStr(0), IntStr(1), IntStr(2), HalfStr(3), TextStr("abc")}
SpanStrs == {IntStr(0 - 1), IntStr(0), IntStr(7), HalfStr(15), TextStr("abc")}
MaxNotesStrs ==
    {IntStr(0 - 1), IntStr(0), IntStr(1), DefaultMaxNotes, TextStr("abc")}
NoteStrs ==
    {<<"A", "0">>, <<"C", "8">>, <<"D", "b", "1">>, <<"C", "-", "1">>,
     <<"C", "b", "1">>, <<"C">>}

\* the command lines of SpecArgs
ArgSets ==
    {MkArgs(f, h, fi, sp, mn, lo, hi) :
        f \in {None, Value("song.mid")}, h \in CountStrs, fi \in CountStrs,
        sp \in SpanStrs, mn \in MaxNotesStrs, lo \in NoteStrs, hi \in NoteStrs}

InitArgs ==
    /\ args \in ArgSets
    /\ config = Unset
    /\ pressed_notes = <<>>
    /\ no_fails = TRUE
    /\ violation = Unset
    /\ actions = <<>>
    /\ out = <<>>
    /\ pc = "main"
    /\ exit_code = "running"
    /\ verify_calls = 0
    /\ tracks = <<>>
    /\ acc_time = 0
    /\ tempo = None /\ key = None /\ timesig = None
    /\ key_args = <<>>
    /\ key_result = <<>>

Help == [type |-> "Help"]

\* no file on the command line: the usage text, exit(0)
MainHelp ==
    /\ pc = "main"
    /\ args["<file>"] = None
    /\ out' = Append(out, Help)
    /\ pc' = "exited"
    /\ exit_code' = 0
    /\ UNCHANGED <<config, pressed_notes, no_fails, violation, actions,
                   verify_calls, parse_vars, other_vars>>

\* parse_args comes to an option whose parser returns None (its message,
\* then exit(1)) or raises (the exception ends the process)
MainReject(k) ==
    /\ pc = "main"
    /\ args["<file>"] # None
    /\ k \in ParsedOptions(args)
    /\ LET r == arg_parsers(k, args[k]) IN
       /\ r.value = None
       /\ out' = out \o r.out
       /\ pc' = IF r.raised THEN "crashed" ELSE "exited"
    /\ exit_code' = 1
    /\ UNCHANGED <<config, pressed_notes, no_fails, violation, actions,
                   verify_calls, parse_vars, other_vars>>

\* every option is parsed: the Config is built and parse_events is next
MainAccept ==
    /\ pc = "main"
    /\ args["<file>"] # None
    /\ \A k \in ParsedOptions(args) : arg_parsers(k, args[k]).value # None
    /\ config' = ConfigOf(args)
    /\ pc' = "parse"
    /\ UNCHANGED <<pressed_notes, no_fails, violation, actions, out, exit_code,
                   verify_calls, parse_vars, other_vars>>

NextArgs ==
    \/ MainHelp
    \/ \E k \in NumericOptions \cup NoteOptions : MainReject(k)
    \/ MainAccept

SpecArgs == InitArgs /\ [][NextArgs]_vars

\* C14: whatever the restriction values on the command line, either the
\* run stops in the validation, before any event is parsed or verified, or
\* the configuration built has hands >= 1, fingers >= 1, span >= 0,
\* max_notes >= 1 and lowest_key <= highest_key.
C14_ConfigValidOrRejected ==
    /\ pc \in {"exited", "crashed"} =>
         (config = Unset /\ tracks = <<>> /\ actions = <<>> /\ verify_calls = 0)
    /\ pc = "parse" =>
         /\ config.hands >= 1
         /\ config.fingers >= 1
         /\ config.span2 >= 0
         /\ config.max_notes >= 1
         /\ config.lowest_key <= config.highest_key

----------------------------------------------------------------------------
(* More properties of verify_actions (Spec) *)

\* the last line the step prints
LastPrinted == Printed[Len(Printed)]

C15Step ==
    \A n \in Notes :
      (/\ Processes(Action(TRUE, n, EngineTick))
       /\ player_enabled(config)
       /\ RangePasses(pressed_notes', config)
       /\ Len(pressed_notes') > config.hands * config.fingers) =>
         /\ Len(Printed) >= 1
         /\ LastPrinted.type = "Fail"
         /\ LastPrinted.action = Action(TRUE, n, EngineTick)
         /\ LastPrinted.violation = violation'
         /\ IF Len(pressed_notes') > config.max_notes
            THEN violation' = TooManyNotes(Len(pressed_notes'), config.max_notes,
                                           Sorted(pressed_notes'))
            ELSE /\ violation'.kind = "HandAssignmentFailed"
                 /\ violation'.note \in NoteSet(pressed_notes')
                 /\ DOMAIN violation'.hand_keys = 1..config.hands
                 /\ \A h \in 1..config.hands :
                      /\ violation'.hand_keys[h] # <<>>
                      /\ \A i \in 1..Len(violation'.hand_keys[h]) :
                           /\ violation'.hand_keys[h][i] \in NoteSet(pressed_notes')
                           /\ violation'.hand_keys[h][i] < violation'.note

----------------------------------------------------------------------------
(* SpecKeys: white_key_index and key_distance on a pair of notes *)

Pitches == 0..MaxPitch

InitKeys ==
    /\ key_args \in Pitches \X Pitches
    /\ key_result = <<>>
    /\ args = <<>>
    /\ config = Unset
    /\ pressed_notes = <<>>
    /\ no_fails = TRUE
    /\ violation = Unset
    /\ actions = <<>>
    /\ out = <<>>
    /\ pc = "keys"
    /\ exit_code = "running"
    /\ verify_calls = 0
    /\ tracks = <<>>
    /\ acc_time = 0
    /\ tempo = None /\ key = None /\ timesig = None

\* the index of each note and of the note an octave above the first, and
\* the distance both ways; every value is doubled
CallKeyDistance ==
    /\ pc = "keys"
    /\ key_result' = [index1   |-> white_key_index2(key_args[1]),
                      index2   |-> white_key_index2(key_args[2]),
                      octave_up |-> white_key_index2(key_args[1] + 12),
                      distance |-> key_distance2(key_args[1], key_args[2]),
                      reverse  |-> key_distance2(key_args[2], key_args[1])]
    /\ pc' = "done"
    /\ UNCHANGED <<config, pressed_notes, no_fails, violation, actions, out,
                   exit_code, verify_calls, parse_vars, args, key_args>>

NextKeys == CallKeyDistance

SpecKeys == InitKeys /\ [][NextKeys]_vars

\* C16: white_key_index(n + 12) = white_key_index(n) + 7 (14 doubled);
\* white_key_index is strictly increasing, so key_distance(a, b) >= 0 when
\* a <= b; and key_distance(a, b) = -key_distance(b, a).
C16_WhiteKeyIndexMonotone ==
    pc = "done" =>
        /\ key_result.octave_up = key_result.index1 + 14
        /\ key_args[1] < key_args[2] => key_result.index1 < key_result.index2
        /\ key_args[1] <= key_args[2] => key_result.distance >= 0
        /\ key_result.distance = 0 - key_result.reverse
        /\ key_result.distance = key_result.index2 - key_result.index1

\* E and the F of the next octave: 7.5 white keys apart, across the octave
C16_Witness ==
    /\ pc = "done"
    /\ key_args = <<4, 17>>
    /\ key_result.distance = 16 /\ key_result.reverse = 0 - 16
    /\ key_result.octave_up = key_result.index1 + 14

NumFailsPrinted ==
    Cardinality({i \in 1..Len(Printed) : Printed[i].type = "Fail"})

\* the chord held before the step is one a verification rejects
OffendingChordHeld ==
    /\ pressed_notes # <<>>
    /\ \/ piano_enabled(config) /\ ~RangePasses(pressed_notes, config)
       \/ player_enabled(config) /\ Len(pressed_notes) > config.max_notes
       \/ /\ player_enabled(config)
          /\ hands_loop(Tail(Sorted(pressed_notes)),
                        <<(<<Sorted(pressed_notes)[1]>>)>>, 0, config) # None

C17Step ==
    \A n \in Notes :
      Processes(Action(TRUE, n, EngineTick)) =>
        /\ verify_calls' = verify_calls + 1
        /\ NumFailsPrinted <= 1
        /\ NumFailsPrinted = 1 <=> violation' # None
        /\ IF piano_enabled(config) /\ ~RangePasses(pressed_notes', config)
           THEN violation' = OutOfRange(config)
           ELSE IF player_enabled(config) /\ Len(pressed_notes') > config.max_notes
           THEN violation'.kind = "TooManyNotes"
           ELSE violation'.kind \in {"None", "HandAssignmentFailed"}
        /\ OffendingChordHeld =>
             /\ NumFailsPrinted = 1
             /\ LastPrinted = Fail(Action(TRUE, n, EngineTick), violation')

NumWarningsPrinted ==
    Cardinality({i \in 1..Len(Printed) : Printed[i].type = "Warning"})

\* what the loop iteration of the action a may print
PrintsFor(a) ==
    /\ NumWarningsPrinted <= 1
    /\ NumFailsPrinted <= 1
    /\ Len(Printed) = NumWarningsPrinted + NumFailsPrinted
    /\ \A i \in 1..Len(Printed) : Printed[i].action = a
    /\ NumWarningsPrinted = 1 =>
         /\ Printed[1].type = "Warning"
         /\ ~config.hide_warnings
         /\ IF a.press
            THEN In(a.note, pressed_notes) /\ Printed[1].text = DoublePress
            ELSE ~In(a.note, pressed_notes) /\ Printed[1].text = ReleaseWithoutPress
    /\ NumFailsPrinted = 1 => a.press /\ LastPrinted.type = "Fail"

C18Step ==
    /\ Len(out') >= Len(out)
    /\ SubSeq(out', 1, Len(out)) = out
    /\ \A n \in Notes, press \in BOOLEAN :
         Processes(Action(press, n, EngineTick)) =>
           PrintsFor(Action(press, n, EngineTick))
    /\ actions' = actions =>
         \A i \in 1..Len(Printed) : Printed[i].type \notin {"Warning", "Fail"}

\* C18: what is printed is never taken back or reordered: each step appends
\* to the output the lines of the action it processes, at most one warning
\* and at most one fail, both naming that action; a warning comes only from
\* a press of a held note or a release of a note that is not held, a fail
\* only from a press, and the warning of a press comes before its fail.
C18_OutputInActionOrder == [][C18Step]_vars

\* a failing press, the same press again (warning, then fail), then a
\* release of a note that is not held (warning)
C18_Witness ==
    /\ Len(actions) = 3
    /\ actions[1].press /\ actions[2] = actions[1]
    /\ ~actions[3].press /\ actions[3].note # actions[1].note
    /\ Len(out) = 4
    /\ out[1] = Fail(actions[1], violation)
    /\ out[2] = Warning(DoublePress, actions[2])
    /\ out[3] = Fail(actions[2], violation)
    /\ out[4] = Warning(ReleaseWithoutPress, actions[3])

----------------------------------------------------------------------------
(* More properties of _verify_restrictions (SpecVerify) *)

\* f gives each position of the chord a hand: no hand has more than
\* fingers_per_hand notes, and every other note of a hand is within
\* max_span of the lowest note of that hand
Playable(lst, f, cfg) ==
    \A h \in 1..cfg.hands :
        LET group == {lst[i] : i \in {j \in 1..Len(lst) : f[j] = h}} IN
        /\ Cardinality(group) <= cfg.fingers
        /\ \A a \in group, b \in group :
             (\A c \in group : a <= c) /\ b # a
                => key_distance2(a, b) <= cfg.span2

\* some assignment of the chord to at most `hands` hands is playable
CanBePlayed(lst, cfg) ==
    \E f \in [1..Len(lst) -> 1..cfg.hands] : Playable(lst, f, cfg)

\* C19: with player restrictions enabled, the range check passed and
\* between 1 and max_notes notes held, _verify_restrictions returns no
\* violation if and only if the held notes can be split into at most
\* `hands` groups of at most fingers_per_hand notes each, every other note
\* of a group within max_span of the group's lowest note; otherwise it
\* returns HandAssignmentFailed.
C19_GreedyIsExact ==
    (/\ pc = "returned"
     /\ ~config.no_player_res
     /\ RangePasses(pressed_notes, config)
     /\ Len(pressed_notes) >= 1
     /\ Len(pressed_notes) <= config.max_notes)
    => /\ violation = None <=> CanBePlayed(pressed_notes, config)
       /\ violation # None => violation.kind = "HandAssignmentFailed"

\* three notes pressed out of order that two hands of two fingers can play,
\* the lowest note alone in its hand because of the span
C19_Witness ==
    /\ pc = "returned"
    /\ ~config.no_player_res
    /\ config.hands = 2 /\ config.fingers = 2 /\ config.span2 = 2
    /\ Len(pressed_notes) = 3 /\ config.max_notes = 3
    /\ pressed_notes # Sorted(pressed_notes)
    /\ key_distance2(Sorted(pressed_notes)[1], Sorted(pressed_notes)[2]) > config.span2
    /\ violation = None
    /\ CanBePlayed(pressed_notes, config)

----------------------------------------------------------------------------
(* The chord given to _verify_restrictions (Spec) *)

NumPresses == Cardinality({k \in 1..Len(actions) : actions[k].press})

\* C20: _verify_restrictions is called once per press and never with an
\* empty list: the run never ends with the IndexError of
\* sorted_pressed_notes[0], and after a press, whatever releases and double
\* presses came before, the note just pressed is held.
C20_VerifiedChordNotEmpty ==
    /\ pc # "crashed"
    /\ violation # IndexError
    /\ verify_calls = NumPresses
    /\ (actions # <<>> /\ actions[Len(actions)].press) =>
          /\ pressed_notes # <<>>
          /\ In(actions[Len(actions)].note, pressed_notes)
          /\ violation # Unset

\* a release of a note that is not held, then the note pressed twice: two
\* verifications, each of the one-note chord
C20_Witness ==
    /\ Len(actions) = 3
    /\ ~actions[1].press /\ actions[2].press /\ actions[3] = actions[2]
    /\ actions[1].note = actions[2].note
    /\ pressed_notes = <<actions[2].note>>
    /\ verify_calls = 2
    /\ ~config.no_player_res
    /\ pc = "verify"

====
